---- MODULE Spec2Model ----
(***************************************************************************)
(* Streak and progression engine of the tracker (src/src/App.tsx).         *)
(*                                                                         *)
(* The component keeps its progression document in the React state `data`, *)
(* the 1 Hz clock in the React state `now`, and reads the wall clock with  *)
(* `new Date()`.  State setters enqueue updates; a render applies the      *)
(* queued updater functions in order and recomputes the memoised values    *)
(* (streakSeconds, days, currentRank, totalPoints); the effects of a       *)
(* render run after it and may enqueue further updates.                    *)
(*                                                                         *)
(* Instants are milliseconds counted from 00:00:00.000 UTC on 1 January of *)
(* BaseYear.  ISO strings are modelled by their fields                     *)
(* <<year, month, day, hour, minute, second, millisecond>>.                *)
(*                                                                         *)
(* Scheduling: the updates of a click handler are rendered before any      *)
(* other event is handled (sync); the updates of the timer callback and of *)
(* the effects wait for the next render and are applied with whatever else *)
(* is queued by then, in queue order; the effects of a render run before   *)
(* the next render.  The wall clock may move by any amount, in either      *)
(* direction, while nothing is outstanding, and by at most MaxWorkDrift    *)
(* while React has work to do.                                             *)
(***************************************************************************)
EXTENDS Integers, Sequences, FiniteSets, TLC

VARIABLES
    clock,          \* the wall clock, what `new Date()` reads
    now,            \* React state `now`
    pendingNow,     \* value queued by setNow and not rendered yet
    data,           \* React state `data` (AppData)
    language,       \* React state `language`
    queue,          \* updater functions queued by setData, oldest first
    sync,           \* a click handler has run and its render is due
    effectsPending, \* the effects of the last render have not run yet
    stored,         \* localStorage item 'nofap_data'
    calendarDate,   \* React state `calendarDate`, by its local year, month, day
    tz,             \* minutes the local time zone is ahead of UTC
    session,        \* "mounted", "unmounted", or "failed" when the first render threw
    timer,          \* the interval of the clock effect is registered
    users,          \* server: ids of the rows of table users
    posts,          \* server: rows of table posts, in insertion order
    exchange,       \* server: the last POST /api/posts request and its status
    requests,       \* the GET /api/posts requests of fetchPosts, in issue order
    shownPosts,     \* React state `posts`
    isLoadingPosts, \* React state `isLoadingPosts`
    maxSeen,        \* greatest streakSeconds any render computed (history)
    maxEver         \* maxSeen, and the elapsed seconds at each relapse (history)

feedVars == <<users, posts, exchange, requests, shownPosts, isLoadingPosts>>

appVars == <<clock, now, pendingNow, data, language, queue, sync, effectsPending, stored,
             calendarDate, tz, session, timer, maxSeen, maxEver>>

vars == <<appVars, feedVars>>

----------------------------------------------------------------------------
(* Bounds of the model *)

MaxDays == 4
MaxRelapses == 1
MaxJournal == 1
MaxWorkDrift == 1
MaxLedger == 2
MaxMonthsAway == 2
MaxStored == 3
MaxPosts == 2
MaxFetches == 2
BaseYear == 2024

(* Program constants *)

MsPerSecond == 1000
SecondsPerMinute == 60
SecondsPerHour == 3600
SecondsPerDay == 24 * 3600
MsPerDay == SecondsPerDay * MsPerSecond

Max(a, b) == IF a >= b THEN a ELSE b

Range(s) == {s[i] : i \in 1..Len(s)}

----------------------------------------------------------------------------
(* Date: toISOString and new Date(string).getTime() *)

IsLeap(y) == (y % 4 = 0 /\ y % 100 # 0) \/ y % 400 = 0

DaysInMonth(y, m) ==
    IF m = 2 THEN (IF IsLeap(y) THEN 29 ELSE 28)
    ELSE IF m \in {4, 6, 9, 11} THEN 30 ELSE 31

DaysInYear(y) == IF IsLeap(y) THEN 366 ELSE 365

RECURSIVE CivilFrom(_, _, _)
CivilFrom(y, m, n) ==
    IF n < 0 THEN
        (IF m = 1 THEN CivilFrom(y - 1, 12, n + DaysInMonth(y - 1, 12))
         ELSE CivilFrom(y, m - 1, n + DaysInMonth(y, m - 1)))
    ELSE IF n >= DaysInMonth(y, m) THEN
        (IF m = 12 THEN CivilFrom(y + 1, 1, n - DaysInMonth(y, m))
         ELSE CivilFrom(y, m + 1, n - DaysInMonth(y, m)))
    ELSE <<y, m, n + 1>>

(* Days from 1 January of BaseYear to 1 January of y *)
RECURSIVE YearOffset(_)
YearOffset(y) ==
    IF y > BaseYear THEN DaysInYear(y - 1) + YearOffset(y - 1)
    ELSE IF y < BaseYear THEN YearOffset(y + 1) - DaysInYear(y)
    ELSE 0

(* Days from 1 January of y to the first of month m of y *)
RECURSIVE MonthOffset(_, _)
MonthOffset(y, m) ==
    IF m > 1 THEN DaysInMonth(y, m - 1) + MonthOffset(y, m - 1) ELSE 0

DaysBefore(y, m) == YearOffset(y) + MonthOffset(y, m)

toISOString(t) ==
    LET dayNo == t \div MsPerDay
        rest  == t % MsPerDay
        ymd   == CivilFrom(BaseYear, 1, dayNo)
        secs  == rest \div MsPerSecond
    IN  <<ymd[1], ymd[2], ymd[3],
          secs \div SecondsPerHour,
          (secs % SecondsPerHour) \div SecondsPerMinute,
          secs % SecondsPerMinute,
          rest % MsPerSecond>>

getTime(iso) ==
    (DaysBefore(iso[1], iso[2]) + (iso[3] - 1)) * MsPerDay
    + ((iso[4] * SecondsPerHour + iso[5] * SecondsPerMinute + iso[6]) * MsPerSecond)
    + iso[7]

----------------------------------------------------------------------------
(* Constants of the component *)

Null == <<>>

INITIAL_DATA ==
    [startDate |-> Null, bestStreakSeconds |-> 0, relapses |-> <<>>,
     journal |-> <<>>, points |-> 0, unlockedBadges |-> <<>>]

Fields == {"startDate", "bestStreakSeconds", "relapses", "journal", "points",
           "unlockedBadges"}

(* localStorage: the item is absent, or holds a text.  kind tells what
   JSON.parse makes of the text: "empty" is the empty string, "garbage" a
   text that is not JSON, "null" and "number" a JSON value that is no
   object, "object" a JSON object with the properties named in has, their
   values in doc. *)
Item(kind, has, doc) == [kind |-> kind, has |-> has, doc |-> doc]

Absent == Item("absent", {}, INITIAL_DATA)

stringify_noBadges(d) == Item("object", Fields \ {"unlockedBadges"}, d)

stringify(d) == Item("object", Fields, d)

(* The useState initializer of data: ok is FALSE when JSON.parse throws *)
(* The defaults spread after the parsed document *)
load_defaultsLast(item) ==
    IF item.kind = "garbage" THEN [ok |-> FALSE, data |-> INITIAL_DATA]
    ELSE [ok |-> TRUE, data |-> INITIAL_DATA]

load(item) ==
    IF item.kind \in {"absent", "empty"} THEN [ok |-> TRUE, data |-> INITIAL_DATA]
    ELSE IF item.kind = "garbage" THEN [ok |-> FALSE, data |-> INITIAL_DATA]
    ELSE IF item.kind # "object" THEN [ok |-> TRUE, data |-> INITIAL_DATA]
    ELSE [ok |-> TRUE,
          data |-> [f \in Fields |->
                       IF f \in item.has THEN item.doc[f] ELSE INITIAL_DATA[f]]]

(* The local calendar date of an instant *)
localDate(t, offset) ==
    LET iso == toISOString(t + offset * SecondsPerMinute * MsPerSecond)
    IN  <<iso[1], iso[2], iso[3]>>

RANKS ==
    << [minDays |-> 0,   name |-> "recruit"],
       [minDays |-> 4,   name |-> "novice"],
       [minDays |-> 8,   name |-> "apprentice"],
       [minDays |-> 15,  name |-> "warrior"],
       [minDays |-> 31,  name |-> "knight"],
       [minDays |-> 61,  name |-> "master"],
       [minDays |-> 91,  name |-> "grandmaster"],
       [minDays |-> 181, name |-> "legend"],
       [minDays |-> 366, name |-> "immortal"] >>

BADGES(lang) ==
    << [id |-> "seed",     days |-> 1,   name |-> IF lang = "en" THEN "Seed" ELSE "Benih"],
       [id |-> "sprout",   days |-> 3,   name |-> IF lang = "en" THEN "Sprout" ELSE "Tunas"],
       [id |-> "sapling",  days |-> 7,   name |-> IF lang = "en" THEN "Sapling" ELSE "Pohon Muda"],
       [id |-> "tree",     days |-> 14,  name |-> IF lang = "en" THEN "Tree" ELSE "Pohon"],
       [id |-> "forest",   days |-> 30,  name |-> IF lang = "en" THEN "Forest" ELSE "Hutan"],
       [id |-> "mountain", days |-> 60,  name |-> IF lang = "en" THEN "Mountain" ELSE "Gunung"],
       [id |-> "sky",      days |-> 90,  name |-> IF lang = "en" THEN "Sky" ELSE "Langit"],
       [id |-> "space",    days |-> 180, name |-> IF lang = "en" THEN "Space" ELSE "Luar Angkasa"],
       [id |-> "universe", days |-> 365, name |-> IF lang = "en" THEN "Universe" ELSE "Alam Semesta"] >>

----------------------------------------------------------------------------
(* Calculations of a render *)

streakSeconds_noClamp(d, n) ==
    IF d.startDate = Null THEN 0
    ELSE (n - getTime(d.startDate)) \div MsPerSecond

streakSeconds(d, n) ==
    IF d.startDate = Null THEN 0
    ELSE LET start == getTime(d.startDate)
         IN  Max(0, (n - start) \div MsPerSecond)

streakParts_hoursNotWrapped(totalSeconds) ==
    [days    |-> totalSeconds \div SecondsPerDay,
     hours   |-> totalSeconds \div SecondsPerHour,
     minutes |-> (totalSeconds % SecondsPerHour) \div SecondsPerMinute,
     seconds |-> totalSeconds % SecondsPerMinute]

streakParts(totalSeconds) ==
    [days    |-> totalSeconds \div SecondsPerDay,
     hours   |-> (totalSeconds % SecondsPerDay) \div SecondsPerHour,
     minutes |-> (totalSeconds % SecondsPerHour) \div SecondsPerMinute,
     seconds |-> totalSeconds % SecondsPerMinute]

DaysOf(totalSeconds) == streakParts(totalSeconds).days

Reverse(s) == [i \in 1..Len(s) |-> s[Len(s) + 1 - i]]

currentRank(days) ==
    LET rev  == Reverse(RANKS)
        hits == {i \in 1..Len(rev) : days >= rev[i].minDays}
    IN  IF hits # {} THEN rev[CHOOSE i \in hits : \A j \in hits : i <= j]
        ELSE RANKS[1]

RECURSIVE milestonePoints(_, _)
milestonePoints(badges, days) ==
    IF badges = <<>> THEN 0
    ELSE LET badge == badges[Len(badges)]
             acc   == milestonePoints(SubSeq(badges, 1, Len(badges) - 1), days)
         IN  IF days >= badge.days THEN acc + (badge.days * 10) ELSE acc

totalPoints(secs, days, lang) ==
    LET hourlyPoints == secs \div SecondsPerHour
    IN  hourlyPoints + milestonePoints(BADGES(lang), days)

(* The values of the current render *)
StreakSeconds == streakSeconds(data, now)
Shown == streakParts(StreakSeconds)
Days == Shown.days
CurrentRank == currentRank(Days)
TotalPoints == totalPoints(StreakSeconds, Days, language)

----------------------------------------------------------------------------
(* Local dates, the analytics memo and the calendar *)

(* The local fields a Date is left with after its month was set to m *)
setMonth(date, m) ==
    LET y  == date[1] + ((m - 1) \div 12)
        mm == ((m - 1) % 12) + 1
    IN  CivilFrom(y, mm, date[3] - 1)

(* year and month of the six dates the loop of the histogram builds, oldest
   first; today is the local date `new Date()` gives *)
monthKeys(today) ==
    [k \in 1..6 |->
        LET d == setMonth(today, today[2] - (6 - k))
        IN  <<d[1], d[2]>>]

startsWith(date, monthYear) == date[1] = monthYear[1] /\ date[2] = monthYear[2]

months(relapses, today) ==
    [k \in 1..6 |->
        [name  |-> monthKeys(today)[k][2],
         count |-> Cardinality({i \in 1..Len(relapses) :
                                   startsWith(relapses[i].date, monthKeys(today)[k])})]]

(* [...relapses].sort by getTime, ascending *)
RECURSIVE sortedRelapses(_)
sortedRelapses(relapses) ==
    IF relapses = <<>> THEN <<>>
    ELSE LET rest == sortedRelapses(Tail(relapses))
             r    == Head(relapses)
             at   == getTime(r.date)
             le   == SelectSeq(rest, LAMBDA x : getTime(x.date) < at)
             gt   == SelectSeq(rest, LAMBDA x : getTime(x.date) >= at)
         IN  le \o <<r>> \o gt

(* The sum of the loop: milliseconds between neighbours of the sorted list *)
RECURSIVE totalMs(_)
totalMs(sorted) ==
    IF Len(sorted) < 2 THEN 0
    ELSE (getTime(sorted[2].date) - getTime(sorted[1].date)) + totalMs(Tail(sorted))

(* Math.round(a / b) for a >= 0 and b > 0 *)
round(a, b) == (a \div b) + (IF 2 * (a % b) >= b THEN 1 ELSE 0)

avgStreakDays_unsorted(relapses, days) ==
    IF Len(relapses) > 0
    THEN IF Len(relapses) > 1
         THEN round(totalMs(relapses), MsPerDay * (Len(relapses) - 1))
         ELSE days
    ELSE days

avgStreakDays(relapses, days) ==
    IF Len(relapses) > 0
    THEN LET sorted == sortedRelapses(relapses)
         IN  IF Len(sorted) > 1
             THEN round(totalMs(sorted), MsPerDay * (Len(sorted) - 1))
             ELSE days
    ELSE days

(* new Date(r.date).toISOString().split('T')[0] *)
dateKey(date) ==
    LET iso == toISOString(getTime(date))
    IN  <<iso[1], iso[2], iso[3]>>

relapseSet(relapses) == {dateKey(relapses[i].date) : i \in 1..Len(relapses)}

(* The days of the displayed month: new Date(year, month, i) *)
calendarDays(shown) ==
    [i \in 1..DaysInMonth(shown[1], shown[2]) |-> <<shown[1], shown[2], i>>]

(* toISOString().split('T')[0] of the local midnight of a calendar day *)
cellKey(day, offset) ==
    CivilFrom(day[1], day[2], (day[3] - 1) + ((0 - offset) \div (24 * 60)))

isRelapse(day, relapses, offset) == cellKey(day, offset) \in relapseSet(relapses)

rateDenominator_noFloor(secs) ==
    (secs + (SecondsPerDay * 30) - 1) \div (SecondsPerDay * 30)

(* Math.max(1, Math.ceil(streakSeconds / (3600 * 24 * 30))) *)
rateDenominator(secs) ==
    Max(1, (secs + (SecondsPerDay * 30) - 1) \div (SecondsPerDay * 30))

(* (relapses.length / denominator).toFixed(1), in tenths *)
relapseRate(count, secs) == round(count * 10, rateDenominator(secs))

----------------------------------------------------------------------------
(* Updates queued by setData: the updater function and what it captured *)

Upd(op, date, text, val, ids) ==
    [op |-> op, date |-> date, text |-> text, val |-> val, ids |-> ids]

StartUpdate == Upd("start", Null, "", 0, <<>>)
RelapseUpdate(date, note) == Upd("relapse", date, note, 0, <<>>)
JournalUpdate(date, content) == Upd("journal", date, content, 0, <<>>)
BestUpdate(secs) == Upd("best", Null, "", secs, <<>>)
BadgeUpdate(ids) == Upd("badges", Null, "", 0, ids)

(* The relapse updater also clearing the best streak *)
ApplyUpdate_resetBest(u, prev, t) ==
    CASE u.op = "journal" ->
            [prev EXCEPT !.journal = <<[date |-> u.date, content |-> u.text]>> \o @]
      [] u.op = "start" ->
            [prev EXCEPT !.startDate = toISOString(t)]
      [] u.op = "relapse" ->
            [prev EXCEPT !.startDate = toISOString(t),
                         !.bestStreakSeconds = 0,
                         !.relapses = <<[date |-> u.date, note |-> u.text]>> \o @]
      [] u.op = "best" ->
            [prev EXCEPT !.bestStreakSeconds = u.val]
      [] u.op = "badges" ->
            [prev EXCEPT !.unlockedBadges = @ \o u.ids]

(* The relapse updater also clearing the unlocked badges *)
ApplyUpdate_resetBadges(u, prev, t) ==
    CASE u.op = "journal" ->
            [prev EXCEPT !.journal = <<[date |-> u.date, content |-> u.text]>> \o @]
      [] u.op = "start" ->
            [prev EXCEPT !.startDate = toISOString(t)]
      [] u.op = "relapse" ->
            [prev EXCEPT !.startDate = toISOString(t),
                         !.unlockedBadges = <<>>,
                         !.relapses = <<[date |-> u.date, note |-> u.text]>> \o @]
      [] u.op = "best" ->
            [prev EXCEPT !.bestStreakSeconds = u.val]
      [] u.op = "badges" ->
            [prev EXCEPT !.unlockedBadges = @ \o u.ids]

(* The journal updater also restarting the streak *)
ApplyUpdate_journalRestarts(u, prev, t) ==
    CASE u.op = "journal" ->
            [prev EXCEPT !.startDate = toISOString(t),
                         !.journal = <<[date |-> u.date, content |-> u.text]>> \o @]
      [] u.op = "start" ->
            [prev EXCEPT !.startDate = toISOString(t)]
      [] u.op = "relapse" ->
            [prev EXCEPT !.startDate = toISOString(t),
                         !.relapses = <<[date |-> u.date, note |-> u.text]>> \o @]
      [] u.op = "best" ->
            [prev EXCEPT !.bestStreakSeconds = u.val]
      [] u.op = "badges" ->
            [prev EXCEPT !.unlockedBadges = @ \o u.ids]

(* One updater applied to prev; t is what `new Date()` reads when it runs *)
ApplyUpdate(u, prev, t) ==
    CASE u.op = "journal" ->
            [prev EXCEPT !.journal = <<[date |-> u.date, content |-> u.text]>> \o @]
      [] u.op = "start" ->
            [prev EXCEPT !.startDate = toISOString(t)]
      [] u.op = "relapse" ->
            [prev EXCEPT !.startDate = toISOString(t),
                         !.relapses = <<[date |-> u.date, note |-> u.text]>> \o @]
      [] u.op = "best" ->
            [prev EXCEPT !.bestStreakSeconds = u.val]
      [] u.op = "badges" ->
            [prev EXCEPT !.unlockedBadges = @ \o u.ids]

(* Only the last queued updater applied *)
ApplyAll_lastWins(q, prev, t) ==
    IF q = <<>> THEN prev
    ELSE ApplyUpdate(q[Len(q)], prev, t)

RECURSIVE ApplyAll(_, _, _)
ApplyAll(q, prev, t) ==
    IF q = <<>> THEN prev
    ELSE ApplyAll(Tail(q), ApplyUpdate(Head(q), prev, t), t)

----------------------------------------------------------------------------
(* Effects *)

bestStreakEffect_neq(d, n) ==
    IF streakSeconds(d, n) # d.bestStreakSeconds
    THEN <<BestUpdate(streakSeconds(d, n))>>
    ELSE <<>>

bestStreakEffect(d, n) ==
    IF streakSeconds(d, n) > d.bestStreakSeconds
    THEN <<BestUpdate(streakSeconds(d, n))>>
    ELSE <<>>

Eligible_noMembership(days, unlocked, lang) ==
    SelectSeq(BADGES(lang), LAMBDA b : days >= b.days)

Eligible(days, unlocked, lang) ==
    SelectSeq(BADGES(lang), LAMBDA b : days >= b.days /\ b.id \notin Range(unlocked))

(* includes() given the name of the badge *)
newlyUnlocked_byName(days, unlocked, lang) ==
    LET hit == SelectSeq(BADGES(lang), LAMBDA b : days >= b.days /\ b.name \notin Range(unlocked))
    IN  [i \in 1..Len(hit) |-> hit[i].id]

newlyUnlocked(days, unlocked, lang) ==
    LET hit == Eligible(days, unlocked, lang)
    IN  [i \in 1..Len(hit) |-> hit[i].id]

(* A badge unlocked only once its threshold is exceeded *)
badgeEffect_pastThreshold(d, n, lang) ==
    LET ids == newlyUnlocked(DaysOf(streakSeconds(d, n)) - 1, d.unlockedBadges, lang)
    IN  IF Len(ids) > 0 THEN <<BadgeUpdate(ids)>> ELSE <<>>

badgeEffect(d, n, lang) ==
    LET ids == newlyUnlocked(DaysOf(streakSeconds(d, n)), d.unlockedBadges, lang)
    IN  IF Len(ids) > 0 THEN <<BadgeUpdate(ids)>> ELSE <<>>

----------------------------------------------------------------------------
(* Inputs *)

(* No POST /api/posts request was made yet *)
NoExchange == [cookie |-> "", content |-> "", image |-> "", status |-> 0]

(* Google accounts, userId cookies a request may carry ("" is no cookie) and
   bodies of a POST /api/posts request *)
UserIds == {"u1", "u2"}
Cookies == {""} \cup UserIds
Bodies ==
    { [content |-> "",   image |-> ""],
      [content |-> "hi", image |-> ""],
      [content |-> "",   image |-> "img"] }

(* The instants at which the model lets something happen: the mount, one
   drift later and MaxDays days later *)
Instants == {0, MaxWorkDrift, MaxDays * MsPerDay}
NoNow == 0 - 1

Notes == {"", "stress"}
Languages == {"en", "id"}
JournalTexts == {"", "  ", "day one"}

trim(s) == IF s = "  " THEN "" ELSE s

(* Time zones of the browser, in minutes ahead of UTC *)
Timezones == {0, 7 * 60, 0 - (5 * 60)}

(* Instants at which a session with a stored document is mounted: the last
   day of the year before BaseYear, the first of BaseYear and MaxDays later *)
MountInstants == {0 - MsPerDay, 0, MaxDays * MsPerDay}

(* Dates of stored relapse events: 31 December 03:00, 1.5 days later, and
   5 January 20:00, all UTC *)
StoredDates ==
    { <<BaseYear - 1, 12, 31, 3, 0, 0, 0>>, <<BaseYear, 1, 1, 15, 0, 0, 0>>,
      <<BaseYear, 1, 5, 20, 0, 0, 0>> }

StoredRelapses == {[date |-> d, note |-> "stress"] : d \in StoredDates}

Ledgers == UNION {[1..n -> StoredRelapses] : n \in 0..MaxStored}

(* A streak started on 26 December, six days before BaseYear *)
StoredStart == toISOString(0 - (6 * MsPerDay))

(* What the item may hold when the session starts *)
StoredItems ==
    {Absent, Item("empty", {}, INITIAL_DATA), Item("garbage", {}, INITIAL_DATA),
     Item("null", {}, INITIAL_DATA), Item("number", {}, INITIAL_DATA)}
    \cup {Item("object", {"relapses"}, [INITIAL_DATA EXCEPT !.relapses = l]) :
             l \in Ledgers}
    \cup {Item("object", {"relapses", "startDate", "bestStreakSeconds"},
                [INITIAL_DATA EXCEPT !.relapses = l, !.startDate = StoredStart,
                                     !.bestStreakSeconds = 6 * SecondsPerDay]) :
             l \in Ledgers}

noteOrFallback_asEntered(relapseNote) == relapseNote

noteOrFallback(relapseNote) ==
    IF relapseNote = "" THEN "No note provided" ELSE relapseNote

----------------------------------------------------------------------------
(* The state machine *)

Init ==
    /\ clock = 0
    /\ now = 0
    /\ pendingNow = NoNow
    /\ data = INITIAL_DATA
    /\ language = "en"
    /\ queue = <<>>
    /\ sync = FALSE
    /\ effectsPending = TRUE
    /\ stored = Absent
    /\ calendarDate = localDate(0, 0)
    /\ tz = 0
    /\ session = "mounted"
    /\ maxSeen = 0
    /\ maxEver = 0
    /\ timer = FALSE
    /\ users = {}
    /\ posts = <<>>
    /\ exchange = NoExchange
    /\ requests = <<>>
    /\ shownPosts = <<>>
    /\ isLoadingPosts = FALSE

(* No update, render or effect is outstanding *)
Quiescent ==
    /\ queue = <<>>
    /\ pendingNow = NoNow
    /\ ~sync
    /\ ~effectsPending

(* The wall clock moves forward; while React has work outstanding only by
   MaxWorkDrift *)
Advance ==
    \E t \in Instants :
        /\ t > clock
        /\ ~Quiescent => t - clock <= MaxWorkDrift
        /\ clock' = t
        /\ UNCHANGED <<calendarDate, tz, session, timer>>
        /\ UNCHANGED feedVars
        /\ UNCHANGED <<now, pendingNow, data, language, queue, sync, effectsPending,
                       stored, maxSeen, maxEver>>

(* The wall clock is set back *)
ClockSkew ==
    \E t \in Instants :
        /\ t < clock
        /\ Quiescent
        /\ clock' = t
        /\ UNCHANGED <<calendarDate, tz, session, timer>>
        /\ UNCHANGED feedVars
        /\ UNCHANGED <<now, pendingNow, data, language, queue, sync, effectsPending,
                       stored, maxSeen, maxEver>>

(* The interval callback: setNow(new Date()) *)
Tick ==
    /\ timer
    /\ ~sync
    /\ pendingNow' = clock
    /\ UNCHANGED <<calendarDate, tz, session, timer>>
    /\ UNCHANGED feedVars
    /\ UNCHANGED <<clock, now, data, language, queue, sync, effectsPending, stored,
                   maxSeen, maxEver>>

StartEnabled_always == TRUE

(* The start button is rendered only while there is no start date *)
StartEnabled == data.startDate = Null

startStreak ==
    /\ session = "mounted"
    /\ ~sync
    /\ StartEnabled
    /\ queue' = Append(queue, StartUpdate)
    /\ sync' = TRUE
    /\ UNCHANGED <<calendarDate, tz, session, timer>>
    /\ UNCHANGED feedVars
    /\ UNCHANGED <<clock, now, pendingNow, data, language, effectsPending, stored,
                   maxSeen, maxEver>>

(* handleRelapse, while the ledger holds fewer than limit events *)
recordRelapse(limit) ==
    \E relapseNote \in Notes :
        /\ session = "mounted"
        /\ ~sync
        /\ Len(data.relapses) < limit
        /\ queue' = Append(queue, RelapseUpdate(toISOString(clock),
                                                noteOrFallback(relapseNote)))
        /\ sync' = TRUE
        /\ maxEver' = Max(maxEver, streakSeconds(data, clock))
        /\ UNCHANGED <<calendarDate, tz, session, timer>>
        /\ UNCHANGED feedVars
        /\ UNCHANGED <<clock, now, pendingNow, data, language, effectsPending, stored,
                       maxSeen>>

handleRelapse == recordRelapse(MaxRelapses)

handleRelapseAgain == recordRelapse(MaxLedger)

addJournalEntry ==
    \E journalText \in JournalTexts :
        /\ session = "mounted"
        /\ ~sync
        /\ trim(journalText) # ""
        /\ Len(data.journal) < MaxJournal
        /\ queue' = Append(queue, JournalUpdate(toISOString(clock), journalText))
        /\ sync' = TRUE
        /\ UNCHANGED <<calendarDate, tz, session, timer>>
        /\ UNCHANGED feedVars
        /\ UNCHANGED <<clock, now, pendingNow, data, language, effectsPending, stored,
                       maxSeen, maxEver>>

(* The language menu: setLanguage(lang.code).  No calculation or effect of
   the progression state depends on the language, so the handler and its
   render are one step. *)
setLanguage ==
    \E code \in Languages :
        /\ session = "mounted"
        /\ ~sync
        /\ language' = code
        /\ UNCHANGED <<calendarDate, tz, session, timer>>
        /\ UNCHANGED feedVars
        /\ UNCHANGED <<clock, now, pendingNow, data, queue, sync, effectsPending,
                       stored, maxSeen, maxEver>>

(* The updater of changeMonth: next.setMonth(next.getMonth() + offset) *)
monthChanged(prev, offset) == setMonth(prev, prev[2] + offset)

(* The arrows of the calendar: changeMonth(-1) and changeMonth(1).  The
   handler and its render are one step. *)
changeMonth ==
    \E offset \in {0 - 1, 1} :
        /\ session = "mounted"
        /\ ~sync
        /\ LET next  == monthChanged(calendarDate, offset)
               today == localDate(clock, tz)
               away  == (next[1] * 12 + next[2]) - (today[1] * 12 + today[2])
           IN  /\ away <= MaxMonthsAway
               /\ 0 - away <= MaxMonthsAway
               /\ calendarDate' = next
        /\ UNCHANGED <<clock, now, pendingNow, data, language, queue, sync,
                       effectsPending, stored, tz, session, timer, maxSeen, maxEver>>
        /\ UNCHANGED feedVars

clearInterval_leaked(registered) == registered

(* The cleanup of the clock effect: clearInterval(timer) *)
clearInterval(registered) == FALSE

(* The component is unmounted: the cleanups of its effects run *)
unmount ==
    /\ session = "mounted"
    /\ ~sync
    /\ session' = "unmounted"
    /\ timer' = clearInterval(timer)
    /\ UNCHANGED <<clock, now, pendingNow, data, language, queue, sync, effectsPending,
                   stored, calendarDate, tz, maxSeen, maxEver>>
    /\ UNCHANGED feedVars

(* React renders: the queued updaters run in order, the memoised values are
   recomputed from the new state *)
Render ==
    /\ session = "mounted"
    /\ ~effectsPending
    /\ queue # <<>> \/ pendingNow # NoNow
    /\ data' = ApplyAll(queue, data, clock)
    /\ now' = IF pendingNow # NoNow THEN pendingNow ELSE now
    /\ pendingNow' = NoNow
    /\ queue' = <<>>
    /\ sync' = FALSE
    /\ effectsPending' = TRUE
    /\ maxSeen' = Max(maxSeen, streakSeconds(data', now'))
    /\ maxEver' = Max(maxEver, streakSeconds(data', now'))
    /\ UNCHANGED <<calendarDate, tz, session, timer>>
    /\ UNCHANGED feedVars
    /\ UNCHANGED <<clock, language, stored>>

(* The effects of the last render, in source order: the clock interval
   (registered by the first run and kept by the later ones), persist, best
   streak, badge unlocking *)
Effects ==
    /\ session = "mounted"
    /\ effectsPending
    /\ stored' = stringify(data)
    /\ queue' = queue \o bestStreakEffect(data, now) \o badgeEffect(data, now, language)
    /\ effectsPending' = FALSE
    /\ timer' = TRUE
    /\ UNCHANGED <<calendarDate, tz, session>>
    /\ UNCHANGED feedVars
    /\ UNCHANGED <<clock, now, pendingNow, data, language, sync, maxSeen, maxEver>>

Next ==
    \/ Advance
    \/ ClockSkew
    \/ Tick
    \/ startStreak
    \/ handleRelapse
    \/ addJournalEntry
    \/ setLanguage
    \/ Render
    \/ Effects

Spec == Init /\ [][Next]_vars

----------------------------------------------------------------------------
(* The server and the community feed *)

(* GET /auth/callback: the Google account is upserted into users *)
authCallback ==
    \E sub \in UserIds :
        /\ users' = users \cup {sub}
        /\ UNCHANGED <<posts, exchange, requests, shownPosts, isLoadingPosts>>
        /\ UNCHANGED appVars

auth_cookieOnly(userId) == userId # ""

(* The auth middleware lets the request through *)
auth(userId) == userId # "" /\ userId \in users

(* POST /api/posts *)
postPosts ==
    \E userId \in Cookies, body \in Bodies :
        /\ (auth(userId) /\ ~(body.content = "" /\ body.image = ""))
                => Len(posts) < MaxPosts
        /\ IF ~auth(userId)
           THEN /\ exchange' = [cookie |-> userId, content |-> body.content,
                                image |-> body.image, status |-> 401]
                /\ posts' = posts
           ELSE IF body.content = "" /\ body.image = ""
           THEN /\ exchange' = [cookie |-> userId, content |-> body.content,
                                image |-> body.image, status |-> 400]
                /\ posts' = posts
           ELSE /\ exchange' = [cookie |-> userId, content |-> body.content,
                                image |-> body.image, status |-> 200]
                /\ posts' = Append(posts, [id |-> Len(posts) + 1, userId |-> userId,
                                           content |-> body.content,
                                           image |-> body.image])
        /\ UNCHANGED <<users, requests, shownPosts, isLoadingPosts>>
        /\ UNCHANGED appVars

(* fetchPosts up to its await: setIsLoadingPosts(true), the request is sent *)
fetchPosts ==
    /\ Len(requests) < MaxFetches
    /\ isLoadingPosts' = TRUE
    /\ requests' = Append(requests, [state |-> "sent", body |-> <<>>])
    /\ UNCHANGED <<users, posts, exchange, shownPosts>>
    /\ UNCHANGED appVars

(* GET /api/posts: the posts joined with their users, newest first *)
getPosts ==
    \E i \in 1..Len(requests) :
        /\ requests[i].state = "sent"
        /\ requests' = [requests EXCEPT ![i] =
                            [state |-> "served",
                             body  |-> Reverse(SelectSeq(posts,
                                          LAMBDA row : row.userId \in users))]]
        /\ UNCHANGED <<users, posts, exchange, shownPosts, isLoadingPosts>>
        /\ UNCHANGED appVars

(* fetchPosts after its await: setPosts(data), then setIsLoadingPosts(false) *)
receivePosts ==
    \E i \in 1..Len(requests) :
        /\ requests[i].state = "served"
        /\ shownPosts' = requests[i].body
        /\ isLoadingPosts' = FALSE
        /\ requests' = [requests EXCEPT ![i].state = "done"]
        /\ UNCHANGED <<users, posts, exchange>>
        /\ UNCHANGED appVars

FeedNext ==
    \/ authCallback
    \/ postPosts
    \/ fetchPosts
    \/ getPosts
    \/ receivePosts

FeedSpec == Init /\ [][FeedNext]_vars

(* The streak and its ledger alone, with relapse after relapse *)
LedgerNext ==
    \/ Advance
    \/ ClockSkew
    \/ Tick
    \/ startStreak
    \/ handleRelapseAgain
    \/ Render
    \/ Effects
    \/ unmount

LedgerSpec == Init /\ [][LedgerNext]_vars

(* A session mounted over a stored item *)
LoadedInit ==
    \E item \in StoredItems, zone \in Timezones, t \in MountInstants :
        /\ stored = item
        /\ tz = zone
        /\ clock = t
        /\ now = t
        /\ pendingNow = NoNow
        /\ session = IF load(item).ok THEN "mounted" ELSE "failed"
        /\ data = load(item).data
        /\ calendarDate = localDate(t, zone)
        /\ language = "en"
        /\ queue = <<>>
        /\ sync = FALSE
        /\ effectsPending = load(item).ok
        /\ maxSeen = streakSeconds(load(item).data, t)
        /\ maxEver = streakSeconds(load(item).data, t)
        /\ timer = FALSE
        /\ users = {}
        /\ posts = <<>>
        /\ exchange = NoExchange
        /\ requests = <<>>
        /\ shownPosts = <<>>
        /\ isLoadingPosts = FALSE

LoadedNext ==
    \/ Tick
    \/ changeMonth
    \/ Render
    \/ Effects

LoadedSpec == LoadedInit /\ [][LoadedNext]_vars

----------------------------------------------------------------------------
(* Properties *)

(* A step that is a render *)
IsRenderStep == ~effectsPending /\ effectsPending'

RelapseQueued == \E i \in 1..Len(queue) : queue[i].op = "relapse"

(* The state before the i-th queued update of a render runs *)
Before(i) == ApplyAll(SubSeq(queue, 1, i - 1), data, clock)

(* C1, as stated: once the reactions have settled, bestStreakSeconds is the
   greatest elapsed streak time ever reached, the elapsed time of a streak at
   the instant a relapse ended it included. *)
BestIsMaxEverReached ==
    Quiescent => data.bestStreakSeconds = maxEver

(* C1, amended: once the reactions have settled, bestStreakSeconds is the
   greatest streakSeconds any render of the session computed from the now
   state. *)
BestIsMaxObserved ==
    Quiescent => data.bestStreakSeconds = maxSeen

BestKeptAfterRelapse ==
    /\ Quiescent
    /\ data.relapses # <<>>
    /\ data.bestStreakSeconds > 0
    /\ data.bestStreakSeconds = maxSeen
    /\ StreakSeconds < data.bestStreakSeconds

(* C2: after handleRelapse the start date is the date of the relapse event at
   the head of relapses.  No start can follow a relapse, so this is stated of
   every state with a relapse. *)
RelapseRestartsAtEventDate ==
    data.relapses # <<>> => data.startDate = Head(data.relapses).date

(* C3: a start update only ever runs on a state without a start date and
   changes nothing but the start date; a start date that is set changes only
   together with a new relapse event. *)
StartOnlyWhenAbsent ==
    [][/\ IsRenderStep =>
            \A i \in 1..Len(queue) :
                queue[i].op = "start" =>
                    /\ Before(i).startDate = Null
                    /\ Before(i + 1) = [Before(i) EXCEPT !.startDate = toISOString(clock)]
       /\ (data.startDate # Null /\ data'.startDate # data.startDate)
            => Len(data'.relapses) > Len(data.relapses)]_vars

StreakStarted ==
    /\ data.startDate # Null
    /\ data.relapses = <<>>
    /\ StreakSeconds > 0

(* C4: an id in unlockedBadges is in unlockedBadges after every step. *)
BadgesNeverRemoved ==
    [][Range(data.unlockedBadges) \subseteq Range(data'.unlockedBadges)]_vars

BadgeKeptAfterRelapse ==
    /\ data.relapses # <<>>
    /\ Days = 0
    /\ data.unlockedBadges # <<>>

(* C5: once the ids newly unlocked for a days value are merged, the badge
   reaction run again with the same days and the merged list finds nothing
   and queues no update. *)
BadgeReactionIdempotent ==
    /\ \A d \in {Days, BADGES(language)[Len(BADGES(language))].days} :
          LET S == data.unlockedBadges
              N == newlyUnlocked(d, S, language)
          IN  newlyUnlocked(d, S \o N, language) = <<>>
    /\ LET merged == ApplyAll(badgeEffect(data, now, language), data, clock)
       IN  badgeEffect(merged, now, language) = <<>>

BadgeMerged ==
    /\ Quiescent
    /\ Days >= 1
    /\ data.unlockedBadges # <<>>

(* C6: bestStreakSeconds never decreases; of the queued updates only the
   best-streak update changes it, and only to a strictly larger value. *)
BestNeverDecreases ==
    [][/\ data'.bestStreakSeconds >= data.bestStreakSeconds
       /\ IsRenderStep =>
            \A i \in 1..Len(queue) :
                IF queue[i].op = "best"
                THEN Before(i + 1).bestStreakSeconds > Before(i).bestStreakSeconds
                ELSE Before(i + 1).bestStreakSeconds = Before(i).bestStreakSeconds]_vars

(* Without a relapse the shown streak is below the best one only after the
   clock went backwards *)
BestKeptUnderBackwardClock ==
    /\ data.startDate # Null
    /\ data.relapses = <<>>
    /\ StreakSeconds < data.bestStreakSeconds

(* Elapsed seconds around every unit boundary *)
SampleSeconds ==
    {d * 86400 + h * 3600 + m * 60 + x :
        d \in {0, 1, MaxDays}, h \in {0, 1, 23}, m \in {0, 1, 59}, x \in {0, 1, 59}}

SamplesRecompose ==
    \A total \in SampleSeconds :
        LET p == streakParts(total)
        IN  /\ p.days * 86400 + p.hours * 3600 + p.minutes * 60 + p.seconds = total
            /\ p.days >= 0
            /\ p.hours \in 0..23
            /\ p.minutes \in 0..59
            /\ p.seconds \in 0..59

(* C7: for a start date not after now, days, hours, minutes and seconds
   recompose to floor((now - start) / 1000) and stay in their ranges. *)
DecompositionExact ==
    /\ (data.startDate # Null /\ getTime(data.startDate) <= now) =>
          /\ Shown.days * 86400 + Shown.hours * 3600 + Shown.minutes * 60 + Shown.seconds
               = (now - getTime(data.startDate)) \div 1000
          /\ Shown.days >= 0
          /\ Shown.hours \in 0..23
          /\ Shown.minutes \in 0..59
          /\ Shown.seconds \in 0..59
    /\ SamplesRecompose

FullDecomposition ==
    /\ data.startDate # Null
    /\ getTime(data.startDate) <= now
    /\ (now - getTime(data.startDate)) % 1000 >= 500
    /\ Shown.days >= 1
    /\ Shown.hours = 23
    /\ Shown.minutes = 59
    /\ Shown.seconds = 59

(* C8: the elapsed streak seconds are never negative, and are 0 without a
   start date and with a start date later than now. *)
ElapsedNeverNegative ==
    /\ StreakSeconds >= 0
    /\ data.startDate = Null => StreakSeconds = 0
    /\ (data.startDate # Null /\ getTime(data.startDate) > now) => StreakSeconds = 0

StartAheadOfNow ==
    /\ data.startDate # Null
    /\ getTime(data.startDate) > now

(* C9: the rank of a render is the entry with the greatest minDays not above
   days, and the render that applies a relapse shows the minDays = 0 rank. *)
RankResolved ==
    [][IsRenderStep =>
         LET d == DaysOf(streakSeconds(data', now'))
             r == currentRank(d)
         IN  /\ r \in Range(RANKS)
             /\ r.minDays <= d
             /\ \A q \in Range(RANKS) : q.minDays <= d => q.minDays <= r.minDays
             /\ RelapseQueued => r = RANKS[1]]_vars

(* days * 10 summed over a set of badges *)
RECURSIVE BonusOf(_)
BonusOf(S) ==
    IF S = {} THEN 0
    ELSE LET b == CHOOSE x \in S : TRUE
         IN  b.days * 10 + BonusOf(S \ {b})

(* C10: the points of a render are floor(elapsed / 3600) plus days * 10 of
   every badge reached by the current days, whatever unlockedBadges,
   bestStreakSeconds and points hold, and the render that applies a relapse
   shows 0. *)
PointsFromElapsedOnly ==
    [][IsRenderStep =>
         LET secs == streakSeconds(data', now')
             d    == DaysOf(secs)
             pts  == totalPoints(secs, d, language')
         IN  /\ pts = (secs \div 3600)
                      + BonusOf({b \in Range(BADGES(language')) : b.days <= d})
             /\ RelapseQueued => pts = 0]_vars

(* A step in which a click handler queued a relapse update *)
IsRelapseClick == ~sync /\ sync' /\ queue'[Len(queue')].op = "relapse"

(* C11: handleRelapse queues one event dated at the instant of the call, its
   note the entered one or the fallback text, and the render puts exactly
   that event in front of the relapses there were, leaving these as they
   are. *)
RelapsePrepended ==
    [][/\ IsRelapseClick =>
            LET u == queue'[Len(queue')]
            IN  /\ queue' = Append(queue, u)
                /\ u.date = toISOString(clock)
                /\ u.text # ""
                /\ u.text \in (Notes \ {""}) \cup {"No note provided"}
       /\ IsRenderStep =>
            \A i \in 1..Len(queue) :
                queue[i].op = "relapse" =>
                    /\ Len(Before(i + 1).relapses) = Len(Before(i).relapses) + 1
                    /\ Head(Before(i + 1).relapses)
                         = [date |-> queue[i].date, note |-> queue[i].text]
                    /\ Tail(Before(i + 1).relapses) = Before(i).relapses]_vars

SecondRelapseInFront ==
    /\ Len(data.relapses) = 2
    /\ data.relapses[1].note = "No note provided"
    /\ data.relapses[2].note = "stress"
    /\ getTime(data.relapses[1].date) > getTime(data.relapses[2].date)

(* C12: the start date changes in a render only, and there only by a start
   or a relapse update: the clock tick, the best-streak update, the badge
   update and the journal update leave it as it is. *)
StartDateFrame ==
    [][/\ ~IsRenderStep => data'.startDate = data.startDate
       /\ IsRenderStep =>
            /\ \A i \in 1..Len(queue) :
                    queue[i].op \notin {"start", "relapse"} =>
                        Before(i + 1).startDate = Before(i).startDate
            /\ (\A i \in 1..Len(queue) : queue[i].op \notin {"start", "relapse"})
                    => data'.startDate = data.startDate]_vars

StartKeptThroughOtherUpdates ==
    /\ data.startDate = toISOString(0)
    /\ now > 0
    /\ data.relapses = <<>>
    /\ data.journal # <<>>
    /\ data.bestStreakSeconds > 0
    /\ data.unlockedBadges # <<>>

(* C13: the render that applies a relapse shows 0 days, 0 hours, 0 minutes
   and 0 seconds, and the renders after it show the time elapsed since the
   relapse. *)
ZeroShownAfterRelapse ==
    [][IsRenderStep =>
         LET p == streakParts(streakSeconds(data', now'))
         IN  /\ RelapseQueued =>
                    p = [days |-> 0, hours |-> 0, minutes |-> 0, seconds |-> 0]
             /\ (data'.relapses # <<>> /\ now' >= getTime(data'.startDate)) =>
                    streakSeconds(data', now')
                        = (now' - getTime(data'.startDate)) \div 1000]_vars

(* C14: the dates in relapses never increase from front to back, relapses
   changes only by a relapse update, and the relapses of a state are a suffix
   of the relapses of the next. *)
LedgerNewestFirst ==
    [][/\ \A i \in 1..(Len(data'.relapses) - 1) :
              getTime(data'.relapses[i].date) >= getTime(data'.relapses[i + 1].date)
       /\ Len(data'.relapses) >= Len(data.relapses)
       /\ SubSeq(data'.relapses, Len(data'.relapses) - Len(data.relapses) + 1,
                 Len(data'.relapses)) = data.relapses
       /\ data'.relapses # data.relapses => (IsRenderStep /\ RelapseQueued)]_vars

(* The local date of the current instant, and months counted from year 0 *)
Today == localDate(clock, tz)

MonthIndex(ym) == ym[1] * 12 + ym[2]

(* C15: the histogram has 6 entries, for the current month and the five
   calendar months before it, oldest first. *)
SixConsecutiveMonths ==
    session = "mounted" =>
        /\ Len(months(data.relapses, Today)) = 6
        /\ \A k \in 1..6 :
              MonthIndex(monthKeys(Today)[k]) = MonthIndex(Today) - (6 - k)

(* C16: the count of a bucket is the number of relapses dated in its month;
   a relapse dated in one of the six months up to the current one is counted
   in one bucket, any other relapse in none. *)
BucketsCountOwnMonth ==
    session = "mounted" =>
        LET r == data.relapses
            h == months(r, Today)
            InBucket(i) == {k \in 1..6 : startsWith(r[i].date, monthKeys(Today)[k])}
        IN  /\ \A k \in 1..6 :
                  h[k].count = Cardinality({i \in 1..Len(r) :
                                   <<r[i].date[1], r[i].date[2]>> = monthKeys(Today)[k]})
            /\ \A i \in 1..Len(r) :
                  Cardinality(InBucket(i))
                    = IF MonthIndex(r[i].date) \in (MonthIndex(Today) - 5)..MonthIndex(Today)
                      THEN 1 ELSE 0

(* The instants of a list of relapses *)
TimesOf(r) == {getTime(r[i].date) : i \in 1..Len(r)}

Latest(r) == LET S == TimesOf(r) IN CHOOSE t \in S : \A u \in S : u <= t

Earliest(r) == LET S == TimesOf(r) IN CHOOSE t \in S : \A u \in S : t <= u

(* C17: with at most one relapse the average is the current days; with n >= 2
   it is (latest - earliest) / (n - 1) days rounded, the same for the list in
   reverse order and for any current days. *)
AverageOfGaps ==
    session = "mounted" =>
        LET r   == data.relapses
            n   == Len(r)
            avg == avgStreakDays(r, Days)
        IN  /\ n <= 1 => avg = Days
            /\ n >= 2 =>
                  /\ avg = round(Latest(r) - Earliest(r), (n - 1) * 86400000)
                  /\ avgStreakDays(Reverse(r), Days) = avg
                  /\ avgStreakDays(r, Days + 1) = avg

AverageOfUnsortedLedger ==
    /\ session = "mounted"
    /\ Len(data.relapses) = 3
    /\ getTime(data.relapses[1].date) > getTime(data.relapses[2].date)
    /\ getTime(data.relapses[2].date) < getTime(data.relapses[3].date)
    /\ avgStreakDays(data.relapses, Days) = 3
    /\ Days > 3

(* C18: a cell of the displayed month is marked exactly when some relapse
   happened on that calendar day. *)
CellMarkedIffRelapseThatDay ==
    session = "mounted" =>
        \A i \in 1..Len(calendarDays(calendarDate)) :
            LET day == calendarDays(calendarDate)[i]
            IN  isRelapse(day, data.relapses, tz)
                    <=> \E j \in 1..Len(data.relapses) :
                            localDate(getTime(data.relapses[j].date), tz) = day

(* Elapsed seconds around the 30-day periods *)
RateSamples == {0, 1, 2592000, 2592001, 2 * 2592000, 2 * 2592000 + 1}

(* C19: the denominator of the relapse rate is at least 1, and is the number
   of 30-day periods begun; up to 30 days the rate is the number of
   relapses. *)
RateDenominatorAtLeastOne ==
    /\ rateDenominator(StreakSeconds) >= 1
    /\ \A secs \in RateSamples :
          /\ rateDenominator(secs) >= 1
          /\ secs > 0 => /\ (rateDenominator(secs) - 1) * 2592000 < secs
                         /\ secs <= rateDenominator(secs) * 2592000
          /\ secs <= 2592000 =>
                relapseRate(Len(data.relapses), secs) = Len(data.relapses) * 10
    /\ StreakSeconds <= 2592000 =>
          relapseRate(Len(data.relapses), StreakSeconds) = Len(data.relapses) * 10

RateWithoutStreak ==
    /\ session = "mounted"
    /\ data.startDate = Null
    /\ StreakSeconds = 0
    /\ Len(data.relapses) = 2
    /\ relapseRate(Len(data.relapses), StreakSeconds) = 20

(* C20: whatever the item holds, the session starts, and every field the
   item does not give has its default value. *)
LoadNeverFails ==
    /\ session = "mounted"
    /\ \A f \in Fields \ stored.has : load(stored).data[f] = INITIAL_DATA[f]

(* C25: the interval is registered once the effects of the mount have run
   and stays so while the session is mounted; the teardown clears it, and
   after it no tick is queued and the clock state, the document and the
   elapsed seconds stay as they are. *)
TimerStopsAtTeardown ==
    [][/\ (session' = "mounted" /\ ~effectsPending') => timer'
       /\ session' = "unmounted" => ~timer'
       /\ session = "unmounted" =>
            /\ session' = "unmounted"
            /\ pendingNow' = pendingNow
            /\ now' = now
            /\ data' = data
            /\ StreakSeconds' = StreakSeconds]_vars

ClockMovesAfterTeardown ==
    /\ session = "unmounted"
    /\ data.startDate # Null
    /\ now <= MaxWorkDrift
    /\ clock = MaxDays * MsPerDay

(* C21: a session mounted over a document (or over no item) starts with the
   stored value of every field the document has and with the default of
   every field it lacks; over no item it starts with the default document.
   The item still holds what was loaded until the effects first rewrite it,
   with all fields. *)
LoadMergesDefaults ==
    (session # "failed" /\ stored.kind \in {"absent", "object"} /\ stored.has # Fields) =>
        /\ \A f \in Fields :
              data[f] = IF f \in stored.has THEN stored.doc[f] ELSE INITIAL_DATA[f]
        /\ stored.kind = "absent" => data = INITIAL_DATA

PartialDocumentLoaded ==
    /\ session = "mounted"
    /\ stored.has = {"relapses", "startDate", "bestStreakSeconds"}
    /\ Len(data.relapses) = 2
    /\ data.startDate = StoredStart
    /\ data.bestStreakSeconds = 6 * 86400
    /\ data.journal = <<>>
    /\ data.unlockedBadges = <<>>

(* C22: a request without a userId cookie, or with one that names no row of
   users, is answered 401 and inserts nothing; a row is inserted only for a
   request whose cookie names a user, with that user as its userId; so the
   userId of every post is the id of a user. *)
PostsOnlyByUsers ==
    [][/\ \A i \in 1..Len(posts') : posts'[i].userId \in users'
       /\ posts' # posts =>
            /\ exchange'.status = 200
            /\ exchange'.cookie \in users
            /\ Len(posts') = Len(posts) + 1
            /\ SubSeq(posts', 1, Len(posts)) = posts
            /\ posts'[Len(posts')].userId = exchange'.cookie
       /\ (exchange' # exchange /\ exchange'.cookie \notin users) =>
            /\ exchange'.status = 401
            /\ posts' = posts]_vars

RejectedAfterPosts ==
    /\ Len(posts) = 2
    /\ posts[1].userId = "u1"
    /\ exchange.status = 401
    /\ exchange.cookie = "u2"
    /\ "u2" \notin users

(* C30: isLoadingPosts is TRUE exactly while some request is not completed,
   and once all are completed the posts shown are the response to the
   request issued last. *)
LatestFetchShown ==
    /\ isLoadingPosts <=> \E i \in 1..Len(requests) : requests[i].state # "done"
    /\ (requests # <<>> /\ \A i \in 1..Len(requests) : requests[i].state = "done")
          => shownPosts = requests[Len(requests)].body

(* C26: from the default document, in every quiescent state unlockedBadges
   holds exactly the ids of the catalog badges whose days threshold is at most
   floor(bestStreakSeconds / 86400). *)
BadgesMatchBestStreak ==
    Quiescent =>
        Range(data.unlockedBadges) =
            { BADGES(language)[i].id : i \in
                { j \in 1..Len(BADGES(language)) :
                    BADGES(language)[j].days <= data.bestStreakSeconds \div 86400 } }

BadgesKeptAfterRelapse ==
    /\ Quiescent
    /\ data.unlockedBadges = <<"seed", "sprout">>
    /\ Len(data.relapses) >= 1
    /\ StreakSeconds = 0
    /\ data.bestStreakSeconds >= 3 * 86400

(* React runs the effects of every render it commits *)
SavedSpec == LedgerSpec /\ WF_vars(Effects)

(* Once the effects of the last render have run, the stored document is the
   serialised in-memory state and loading it gives that state back *)
StoredIsCurrentState ==
    (session = "mounted" /\ ~effectsPending) =>
        /\ stored = stringify(data)
        /\ load(stored).ok
        /\ load(stored).data = data

(* C24: whenever the effects of the last render have run, the stored document
   is the serialised in-memory state, and loading it gives that state back;
   a state where the document differs from the state is followed by one where
   it has been rewritten to the state, unless the session is torn down
   first. *)
EventuallySaved ==
    /\ []StoredIsCurrentState
    /\ (session = "mounted" /\ stored # stringify(data))
           ~> (stored = stringify(data) \/ session = "unmounted")

SavedAfterRelapse ==
    /\ Quiescent
    /\ session = "mounted"
    /\ Len(data.relapses) = 2
    /\ data.unlockedBadges # <<>>
    /\ stored.doc = data

OpsAt(ops) == { i \in 1..Len(queue) : queue[i].op \in ops }

LastAt(ops) == IF OpsAt(ops) = {} THEN 0 ELSE CHOOSE i \in OpsAt(ops) : \A j \in OpsAt(ops) : j <= i

RECURSIVE IdsQueued(_)
IdsQueued(q) ==
    IF q = <<>> THEN <<>>
    ELSE (IF Head(q).op = "badges" THEN Head(q).ids ELSE <<>>) \o IdsQueued(Tail(q))

(* C23: a render leaves the effect of every queued update in the state: each
   queued journal entry and relapse event is in its list, which grew by their
   number and kept what it held; the ids of every queued badge merge follow
   the ids there were; bestStreakSeconds is the value of the last queued
   best-streak update; startDate is the one written by the last queued start
   or relapse; a field no queued update writes is unchanged. *)
NoUpdateLost ==
    [][IsRenderStep =>
        /\ Len(data'.journal) = Len(data.journal) + Cardinality(OpsAt({"journal"}))
        /\ \A i \in OpsAt({"journal"}) :
              \E k \in 1..Len(data'.journal) :
                  data'.journal[k] = [date |-> queue[i].date, content |-> queue[i].text]
        /\ SubSeq(data'.journal, Len(data'.journal) - Len(data.journal) + 1, Len(data'.journal))
              = data.journal
        /\ Len(data'.relapses) = Len(data.relapses) + Cardinality(OpsAt({"relapse"}))
        /\ \A i \in OpsAt({"relapse"}) :
              \E k \in 1..Len(data'.relapses) :
                  data'.relapses[k] = [date |-> queue[i].date, note |-> queue[i].text]
        /\ SubSeq(data'.relapses, Len(data'.relapses) - Len(data.relapses) + 1, Len(data'.relapses))
              = data.relapses
        /\ data'.unlockedBadges = data.unlockedBadges \o IdsQueued(queue)
        /\ data'.bestStreakSeconds =
              IF LastAt({"best"}) = 0 THEN data.bestStreakSeconds
              ELSE queue[LastAt({"best"})].val
        /\ data'.startDate =
              IF LastAt({"start", "relapse"}) = 0 THEN data.startDate
              ELSE toISOString(clock)]_vars

(* The document saved by the effects of the render before holds none of them:
   one render applied the best-streak update, the badge merge and the relapse *)
BatchOfThreeApplied ==
    /\ effectsPending
    /\ stored.kind = "object"
    /\ stored.doc.bestStreakSeconds = 0
    /\ stored.doc.unlockedBadges = <<>>
    /\ stored.doc.relapses = <<>>
    /\ data.bestStreakSeconds = MaxDays * 86400
    /\ data.unlockedBadges = <<"seed", "sprout">>
    /\ Len(data.relapses) = 1

(* C27: unlockedBadges holds every badge id at most once. *)
NoDuplicateBadges ==
    \A i, j \in 1..Len(data.unlockedBadges) :
        data.unlockedBadges[i] = data.unlockedBadges[j] => i = j

(* One render applied the badge merge together with a journal entry *)
BadgesMergedWithJournalEntry ==
    /\ effectsPending
    /\ stored.kind = "object"
    /\ stored.doc.unlockedBadges = <<>>
    /\ stored.doc.journal = <<>>
    /\ data.unlockedBadges = <<"seed", "sprout">>
    /\ Len(data.journal) = 1

(* C28: a start date that is set stays set, and a relapse recorded while
   there is no start date puts its event at the head of relapses and starts
   the streak at the instant of that event. *)
StartDateStaysSet ==
    [][/\ data.startDate # Null => data'.startDate # Null
       /\ (IsRenderStep /\ data.startDate = Null /\ RelapseQueued) =>
            /\ Len(data'.relapses) = Len(data.relapses) + 1
            /\ data'.startDate = Head(data'.relapses).date]_vars

(* C29: from the displayed date, changeMonth(1) shows the next calendar
   month, and changeMonth(1) then changeMonth(-1), as well as changeMonth(-1)
   then changeMonth(1), show the year and month displayed before. *)
MonthNavigationRoundTrips ==
    session = "mounted" =>
        LET up   == monthChanged(calendarDate, 1)
            down == monthChanged(calendarDate, 0 - 1)
        IN  /\ MonthIndex(up) = MonthIndex(calendarDate) + 1
            /\ MonthIndex(monthChanged(up, 0 - 1)) = MonthIndex(calendarDate)
            /\ MonthIndex(monthChanged(down, 1)) = MonthIndex(calendarDate)

====
